---- MODULE Spec2Model ----
(***************************************************************************)
(* Model of the PRD Generator (src/app.py): the tag extractor, the title   *)
(* resolver, the markup and the paginated renderer, the viewer's file name *)
(* and the Streamlit session handlers.                                     *)
(* A Python str is a sequence of one-character strings.                    *)
(***************************************************************************)
EXTENDS Integers, Sequences, FiniteSets, TLC

VARIABLES
    text,          \* extract_prd: the argument
    ex_res,        \* extract_prd: the returned pair
    ex_pc,         \* extract_prd: "call" before, "done" after the return
    prd_content,   \* extract_title: the argument
    t_res,         \* extract_title: the returned title
    t_pc,          \* extract_title: "call" before, "done" after the return
    today,         \* datetime.now(): index of the current day in Days
    messages,      \* st.session_state.messages
    prds,          \* st.session_state.prds
    view_prd_idx,  \* st.session_state.view_prd_idx (0-based, NoneIdx for None)
    reply,         \* the fragments the generator still has to yield this turn
    buf,           \* buf["full"], the accumulator of the running turn
    shown,         \* the fragments st.write_stream has forwarded this turn
    pc,            \* "idle" between script runs, "streaming" inside a turn
    nturns,        \* user inputs submitted so far
    event,         \* the handler that ran last
    content,       \* prd_to_html: the argument
    lines,         \* prd_to_html: content.split("\n")
    h_i,           \* prd_to_html: lines consumed by the loop so far
    out,           \* prd_to_html: the list of emitted markup
    in_ul,         \* prd_to_html: an unordered list is open
    in_ol,         \* prd_to_html: an ordered list is open
    h_pc,          \* prd_to_html: "call", "loop", "done"
    item_title,    \* item["title"] of the record the viewer shows
    story,         \* generate_pdf: the list of flowables
    p_i,           \* generate_pdf: lines consumed by the loop so far
    p_pc,          \* generate_pdf: "call", "loop", "done"
    safe_name,     \* the viewer: the base of the download's file name
    n_pc           \* the viewer: "call" before, "done" after safe_name is set

extractVars == <<text, ex_res, ex_pc>>
titleVars   == <<prd_content, t_res, t_pc>>
sessionVars == <<messages, prds, view_prd_idx, reply, buf, shown, pc, nturns, event>>
htmlVars    == <<content, lines, h_i, out, in_ul, in_ol, h_pc>>
pdfVars     == <<story, p_i, p_pc>>
nameVars    == <<item_title, safe_name, n_pc>>

\* what the session handlers never touch
otherVars == <<extractVars, titleVars, htmlVars, pdfVars, nameVars>>

vars == <<extractVars, titleVars, today, sessionVars, htmlVars, pdfVars, nameVars>>

\* ------------------------------------------------------------------ bounds
MaxPieces == 5
MaxTitlePieces == 4
MaxTurns == 2
MaxLines == 4
MaxKindLines == 2

\* ------------------------------------------------------------ str helpers
Min(S) == CHOOSE x \in S : \A y \in S : x <= y
Max(S) == CHOOSE x \in S : \A y \in S : x >= y

\* the characters str.strip() and the regex class \s remove / match
Whitespace == {" ", "\n", "\t"}

RECURSIVE Concat(_)
Concat(ss) == IF ss = <<>> THEN <<>> ELSE Head(ss) \o Concat(Tail(ss))

\* s[p:] in Python, with p a 1-based position
From(s, p) == SubSeq(s, p, Len(s))

\* s.startswith(pat, p-1)
StartsWithAt(s, p, pat) ==
    /\ p >= 1
    /\ p + Len(pat) - 1 <= Len(s)
    /\ SubSeq(s, p, p + Len(pat) - 1) = pat

startswith(s, pat) == StartsWithAt(s, 1, pat)

\* s.find(pat, p-1) + 1: the least position >= p where pat occurs, 0 if none
Find(s, pat, p) ==
    LET hits == {q \in p..Len(s) : StartsWithAt(s, q, pat)}
    IN  IF hits = {} THEN 0 ELSE Min(hits)

\* str.strip(): drop leading and trailing whitespace only
strip(s) ==
    LET keep == {i \in 1..Len(s) : s[i] \notin Whitespace}
    IN  IF keep = {} THEN <<>> ELSE SubSeq(s, Min(keep), Max(keep))

\* s.split("\n")
RECURSIVE split(_)
split(s) ==
    LET nl == Find(s, <<"\n">>, 1)
    IN  IF nl = 0 THEN <<s>> ELSE <<SubSeq(s, 1, nl - 1)>> \o split(From(s, nl + 1))

RECURSIVE SeqsUpTo(_, _)
SeqsUpTo(S, n) ==
    IF n = 0 THEN {<<>>}
    ELSE LET shorter == SeqsUpTo(S, n - 1)
         IN  shorter \cup {Append(q, x) : q \in {r \in shorter : Len(r) = n - 1}, x \in S}

\* ------------------------------------------------------------ extract_prd
PRD_START == <<"<", "P", "R", "D", "_", "S", "T", "A", "R", "T", ">">>
PRD_END   == <<"<", "P", "R", "D", "_", "E", "N", "D", ">">>

\* Python's None for an optional str; a str is [some |-> TRUE, val |-> s]
None    == [some |-> FALSE, val |-> <<>>]
Some(s) == [some |-> TRUE, val |-> s]

NoMatch == [found |-> FALSE, start |-> 0, stop |-> 0, group |-> <<>>]

\* re.search(r"<PRD_START>([\s\S]*?)<PRD_END>", s): the leftmost position
\* where the start marker occurs with an end marker somewhere after it, and
\* from there the shortest span (lazy quantifier) up to an end marker.
\* start..stop is the whole match, group is group(1).
PrdSearch(s) ==
    LET cands == {i \in 1..Len(s) :
                     /\ StartsWithAt(s, i, PRD_START)
                     /\ Find(s, PRD_END, i + Len(PRD_START)) # 0}
    IN  IF cands = {} THEN NoMatch
        ELSE LET i == Min(cands)
                 e == Find(s, PRD_END, i + Len(PRD_START))
             IN  [found |-> TRUE, start |-> i, stop |-> e + Len(PRD_END) - 1,
                  group |-> SubSeq(s, i + Len(PRD_START), e - 1)]

\* re.sub(pattern, "", s, count=1): what a substitution limited to the first
\* match would return
PrdSubFirst(s) ==
    LET m == PrdSearch(s)
    IN  IF m.found THEN SubSeq(s, 1, m.start - 1) \o From(s, m.stop + 1) ELSE s

\* re.sub(r"<PRD_START>[\s\S]*?<PRD_END>", "", s): every non-overlapping
\* match, found left to right, each search resuming after the previous match
RECURSIVE PrdSub(_)
PrdSub(s) ==
    LET m == PrdSearch(s)
    IN  IF m.found
        THEN SubSeq(s, 1, m.start - 1) \o PrdSub(From(s, m.stop + 1))
        ELSE s

\* extract_prd with the commentary of the no-match branch stripped as well
extract_prd_strips_miss(s) ==
    LET m == PrdSearch(s)
    IN  IF m.found
        THEN [prd |-> Some(strip(m.group)), commentary |-> strip(PrdSub(s))]
        ELSE [prd |-> None, commentary |-> strip(s)]

\* extract_prd that forgets to strip the block
extract_prd_raw_block(s) ==
    LET m == PrdSearch(s)
    IN  IF m.found
        THEN [prd |-> Some(m.group), commentary |-> strip(PrdSub(s))]
        ELSE [prd |-> None, commentary |-> s]

\* extract_prd whose substitution stops after the first match
extract_prd_sub_first(s) ==
    LET m == PrdSearch(s)
    IN  IF m.found
        THEN [prd |-> Some(strip(m.group)), commentary |-> strip(PrdSubFirst(s))]
        ELSE [prd |-> None, commentary |-> s]

\* extract_prd(text) -> (prd_content | None, commentary)
extract_prd(s) ==
    LET m == PrdSearch(s)
    IN  IF m.found
        THEN [prd |-> Some(strip(m.group)), commentary |-> strip(PrdSub(s))]
        ELSE [prd |-> None, commentary |-> s]

\* ---------------------------------------------------------- extract_title
\* datetime.now().strftime('%d %b %Y') on successive days, one token each,
\* and strftime("%d %b, %H:%M") at the time of the call
Days   == <<"04 Nov 2026", "05 Nov 2026">>
Stamps == <<"04 Nov, 06:23", "05 Nov, 06:23">>

\* f"PRD – {date}"; "--" stands for the en dash
FallbackTitle(day) == <<"P", "R", "D", " ", "--", " ", Days[day]>>

\* the position before which the line holding position g ends ($ with
\* re.MULTILINE: before the next newline or at the end of the string)
EndOfLine(s, g) ==
    LET nl == Find(s, <<"\n">>, g)
    IN  IF nl = 0 THEN Len(s) ELSE nl - 1

\* the lengths k the greedy \s+ after the "#" at p can take so that (.+)$
\* still matches: k whitespace characters (newlines are whitespace too),
\* then at least one character that is not a newline
TitleRuns(s, p) ==
    {k \in 1..(Len(s) - p - 1) :
        /\ \A q \in (p + 1)..(p + k) : s[q] \in Whitespace
        /\ s[p + k + 1] # "\n"}

\* re.search(r"^#\s+(.+)$", s, re.MULTILINE): the leftmost line start with a
\* "#" there from which the rest matches; \s+ takes the longest run that
\* lets the rest match, (.+) runs to the end of its line
TitleSearch(s) ==
    LET cands == {p \in 1..Len(s) :
                     /\ (p = 1 \/ s[p - 1] = "\n")
                     /\ s[p] = "#"
                     /\ TitleRuns(s, p) # {}}
    IN  IF cands = {} THEN NoMatch
        ELSE LET p == Min(cands)
                 g == p + Max(TitleRuns(s, p)) + 1
             IN  [found |-> TRUE, start |-> p, stop |-> EndOfLine(s, g),
                  group |-> SubSeq(s, g, EndOfLine(s, g))]

\* extract_title(prd_content) on day `day`
extract_title(s, day) ==
    LET m == TitleSearch(s)
    IN  IF m.found THEN strip(m.group) ELSE FallbackTitle(day)

\* ---------------------------------------------------------- session state
\* st.session_state.view_prd_idx = None
NoneIdx == -1

\* what st.chat_input returns on a submit (a non-empty string)
UserInputs == { <<"h", "i">> }

\* one assistant turn of the generator: the fragments stream_ollama yields.
\* A discovery question, a document with a title, a whitespace-only and an
\* empty block, a document with another title, a document with no heading,
\* two documents in one message, and a start marker never closed.
Replies ==
    { << <<"a">>, <<" ">> >>,
      << PRD_START \o <<"#", " ", "T">>, PRD_END \o <<" ", "o", "k">> >>,
      << PRD_START, <<" ">>, PRD_END >>,
      << PRD_START \o PRD_END >>,
      << PRD_START \o <<"#", " ", "V">>, <<"\n", "a">> \o PRD_END >>,
      << PRD_START \o <<"a">> \o PRD_END >>,
      << PRD_START \o <<"#", " ", "T">> \o PRD_END,
         PRD_START \o <<"#", " ", "V">> \o PRD_END >>,
      << PRD_START, <<"#", " ", "T">> >> }

\* str(e) of the exceptions the generator raises
Exceptions == { <<"connection refused">> }

DEFAULT_MODEL == <<"llama3.1:8b">>

\* the f-string of the except clause, each literal run between newlines one
\* token, with ' for the backquote
ErrorText(e) ==
    <<"(!) **Ollama connection error.**", "\n", "\n", "Run: 'ollama serve'  ", "\n",
      "Pull model: 'ollama pull ">> \o DEFAULT_MODEL \o <<"'", "\n", "\n", "Error: '">>
    \o e \o <<"'">>

\* Python truthiness of an optional str: neither None nor ""
Truthy(o) == o.some /\ o.val # <<>>

\* the record the turn appends for the block prd_c
PrdRecord(prd_c, day) ==
    [title |-> extract_title(prd_c, day), content |-> prd_c, timestamp |-> Stamps[day]]

\* step 4 with "if prd_c is not None" for the test
WithPrdOfIfNotNone(ps, full, day) ==
    LET prd_c == extract_prd(full).prd
    IN  IF prd_c.some THEN Append(ps, PrdRecord(prd_c.val, day)) ELSE ps

\* step 4 with the record put at the front of the collection
WithPrdOfAtFront(ps, full, day) ==
    LET prd_c == extract_prd(full).prd
    IN  IF Truthy(prd_c) THEN <<PrdRecord(prd_c.val, day)>> \o ps ELSE ps

\* step 4: prd_c, _ = extract_prd(full); if prd_c: prds.append({...})
WithPrdOf(ps, full, day) ==
    LET prd_c == extract_prd(full).prd
    IN  IF Truthy(prd_c) THEN Append(ps, PrdRecord(prd_c.val, day)) ELSE ps

Message(r, c) == [role |-> r, content |-> c]

\* the chat_input handler up to the start of the stream
UserInput(u, r) ==
    /\ pc = "idle"
    /\ view_prd_idx = NoneIdx
    /\ nturns < MaxTurns
    /\ messages' = Append(messages, Message("user", u))
    /\ reply' = r
    /\ buf' = <<>>
    /\ shown' = <<>>
    /\ pc' = "streaming"
    /\ nturns' = nturns + 1
    /\ event' = "user_input"
    /\ UNCHANGED otherVars
    /\ UNCHANGED <<prds, view_prd_idx, today>>

\* the generator step with the fragment put in front of the accumulator
ChunkPrepends ==
    /\ pc = "streaming"
    /\ reply # <<>>
    /\ buf' = Head(reply) \o buf
    /\ shown' = Append(shown, Head(reply))
    /\ reply' = Tail(reply)
    /\ event' = "chunk"
    /\ UNCHANGED otherVars
    /\ UNCHANGED <<messages, prds, view_prd_idx, pc, nturns, today>>

\* _gen: the next fragment is added to buf["full"] and yielded to
\* st.write_stream
Chunk ==
    /\ pc = "streaming"
    /\ reply # <<>>
    /\ buf' = buf \o Head(reply)
    /\ shown' = Append(shown, Head(reply))
    /\ reply' = Tail(reply)
    /\ event' = "chunk"
    /\ UNCHANGED otherVars
    /\ UNCHANGED <<messages, prds, view_prd_idx, pc, nturns, today>>

\* the generator is exhausted: persist buf["full"] and rerun
GenDone ==
    /\ pc = "streaming"
    /\ reply = <<>>
    /\ messages' = Append(messages, Message("assistant", buf))
    /\ prds' = WithPrdOf(prds, buf, today)
    /\ pc' = "idle"
    /\ event' = "gen_done"
    /\ UNCHANGED otherVars
    /\ UNCHANGED <<view_prd_idx, reply, buf, shown, nturns, today>>

\* the except clause ending the turn without storing a message
GenRaiseStoresNothing(e) ==
    /\ pc = "streaming"
    /\ buf' = ErrorText(e)
    /\ pc' = "idle"
    /\ event' = "gen_raise"
    /\ UNCHANGED otherVars
    /\ UNCHANGED <<messages, prds, view_prd_idx, reply, shown, nturns, today>>

\* the except clause without the assignment to buf["full"]
GenRaiseKeepsBuf(e) ==
    /\ pc = "streaming"
    /\ messages' = Append(messages, Message("assistant", buf))
    /\ prds' = WithPrdOf(prds, buf, today)
    /\ pc' = "idle"
    /\ event' = "gen_raise"
    /\ UNCHANGED otherVars
    /\ UNCHANGED <<view_prd_idx, reply, buf, shown, nturns, today>>

\* the generator raises e: buf["full"] becomes the error text, which is
\* persisted like any message
GenRaise(e) ==
    /\ pc = "streaming"
    /\ buf' = ErrorText(e)
    /\ messages' = Append(messages, Message("assistant", buf'))
    /\ prds' = WithPrdOf(prds, buf', today)
    /\ pc' = "idle"
    /\ event' = "gen_raise"
    /\ UNCHANGED otherVars
    /\ UNCHANGED <<view_prd_idx, reply, shown, nturns, today>>

\* an Open button whose real_i is len(prds) - ri, one too many
OpenOffByOne(real_i) ==
    /\ pc = "idle"
    /\ real_i \in 0..(Len(prds) - 1)
    /\ view_prd_idx' = real_i + 1
    /\ event' = "open"
    /\ UNCHANGED otherVars
    /\ UNCHANGED <<messages, prds, reply, buf, shown, pc, nturns, today>>

\* sidebar: the Open button of record real_i
Open(real_i) ==
    /\ pc = "idle"
    /\ real_i \in 0..(Len(prds) - 1)
    /\ view_prd_idx' = real_i
    /\ event' = "open"
    /\ UNCHANGED otherVars
    /\ UNCHANGED <<messages, prds, reply, buf, shown, pc, nturns, today>>

\* a New Conversation button that empties the document collection too
NewConversationClearsPrds ==
    /\ pc = "idle"
    /\ messages' = <<>>
    /\ prds' = <<>>
    /\ view_prd_idx' = NoneIdx
    /\ event' = "new_conversation"
    /\ UNCHANGED otherVars
    /\ UNCHANGED <<reply, buf, shown, pc, nturns, today>>

\* sidebar: the New Conversation button
NewConversation ==
    /\ pc = "idle"
    /\ messages' = <<>>
    /\ view_prd_idx' = NoneIdx
    /\ event' = "new_conversation"
    /\ UNCHANGED otherVars
    /\ UNCHANGED <<prds, reply, buf, shown, pc, nturns, today>>

\* viewer: the Back to Chat button
BackToChat ==
    /\ pc = "idle"
    /\ view_prd_idx # NoneIdx
    /\ view_prd_idx' = NoneIdx
    /\ event' = "back_to_chat"
    /\ UNCHANGED otherVars
    /\ UNCHANGED <<messages, prds, reply, buf, shown, pc, nturns, today>>

\* the lookup that takes the newest record of the title
PrdIdxLast(ps, title) ==
    LET hits == {j \in 0..(Len(ps) - 1) : ps[j + 1].title = title}
    IN  IF hits = {} THEN NoneIdx ELSE Max(hits)

\* next((j for j, p in enumerate(prds) if p["title"] == title), None)
PrdIdx(ps, title) ==
    LET hits == {j \in 0..(Len(ps) - 1) : ps[j + 1].title = title}
    IN  IF hits = {} THEN NoneIdx ELSE Min(hits)

\* chat view: the View & Download button under message i (0-based)
ViewAndDownload(i) ==
    /\ pc = "idle"
    /\ view_prd_idx = NoneIdx
    /\ i \in 0..(Len(messages) - 1)
    /\ messages[i + 1].role # "user"
    /\ LET prd_c == extract_prd(messages[i + 1].content).prd
       IN  /\ Truthy(prd_c)
           /\ PrdIdx(prds, extract_title(prd_c.val, today)) # NoneIdx
           /\ view_prd_idx' = PrdIdx(prds, extract_title(prd_c.val, today))
    /\ event' = "view_download"
    /\ UNCHANGED otherVars
    /\ UNCHANGED <<messages, prds, reply, buf, shown, pc, nturns, today>>

\* midnight passes between two script runs
NextDay ==
    /\ pc = "idle"
    /\ today < Len(Days)
    /\ today' = today + 1
    /\ event' = "next_day"
    /\ UNCHANGED otherVars
    /\ UNCHANGED <<messages, prds, view_prd_idx, reply, buf, shown, pc, nturns>>

\* -------------------------------------------------------------- md_inline
\* re.sub(d (.+?) d, otag \1 ctag, s) for a delimiter d: leftmost match
\* first; (.+?) is the shortest run of at least one character, none of them
\* a newline, that is followed by the closing delimiter; the scan resumes
\* after the match. otag and ctag are the emitted tags, one token each.
InlineClose(s, i, d) ==
    LET from  == i + Len(d) + 1
        hits  == {c \in from..Len(s) :
                     /\ StartsWithAt(s, c, d)
                     /\ \A q \in (i + Len(d))..(c - 1) : s[q] # "\n"}
    IN  IF hits = {} THEN 0 ELSE Min(hits)

RECURSIVE InlineSub(_, _, _, _)
InlineSub(s, d, otag, ctag) ==
    LET cands == {i \in 1..Len(s) : StartsWithAt(s, i, d) /\ InlineClose(s, i, d) # 0}
    IN  IF cands = {} THEN s
        ELSE LET i == Min(cands)
                 c == InlineClose(s, i, d)
             IN  SubSeq(s, 1, i - 1) \o <<otag>> \o SubSeq(s, i + Len(d), c - 1)
                 \o <<ctag>> \o InlineSub(From(s, c + Len(d)), d, otag, ctag)

\* the backquote character
BQ == "BQ"

\* md_inline(text): bold, then italic, then code
md_inline(s) ==
    InlineSub(InlineSub(InlineSub(s, <<"*", "*">>, "<strong>", "</strong>"),
                        <<"*">>, "<em>", "</em>"),
              <<BQ>>, "<code>", "</code>")

\* ------------------------------------------------------------ prd_to_html
AsciiDigits == {"0", "1", "2", "3", "4", "5", "6", "7", "8", "9"}

\* \d of a str pattern also matches the decimal digits of other scripts;
\* "U+0663" is ARABIC-INDIC DIGIT THREE, one character
UnicodeDigits == AsciiDigits \cup {"U+0663"}

\* re.match(r"^\d+\. ", line)
IsOrderedLine(line) ==
    \E d \in 1..Len(line) :
        /\ \A q \in 1..d : line[q] \in UnicodeDigits
        /\ d + 2 <= Len(line)
        /\ line[d + 1] = "."
        /\ line[d + 2] = " "

\* re.sub(r'^[0-9]+. ', '', line): the dot is unescaped and stands for any
\* character but a newline; [0-9]+ is greedy and backtracks
OrderedText(line) ==
    LET ds == {d \in 1..Len(line) :
                  /\ \A q \in 1..d : line[q] \in AsciiDigits
                  /\ d + 2 <= Len(line)
                  /\ line[d + 1] # "\n"
                  /\ line[d + 2] = " "}
    IN  IF ds = {} THEN line ELSE From(line, Max(ds) + 3)

\* an element of out: the markup of one tag, its inner text kept apart
Node(tag, inner) == [tag |-> tag, text |-> inner]

\* close() without its two tests
closeAlways(st) ==
    [st EXCEPT !.out = @ \o <<Node("/ul", <<>>), Node("/ol", <<>>)>>,
               !.in_ul = FALSE, !.in_ol = FALSE]

\* close(): st is the triple of out, in_ul and in_ol
close(st) ==
    LET a == IF st.in_ul THEN [st EXCEPT !.out = Append(@, Node("/ul", <<>>)), !.in_ul = FALSE]
             ELSE st
    IN  IF a.in_ol THEN [a EXCEPT !.out = Append(@, Node("/ol", <<>>)), !.in_ol = FALSE]
        ELSE a

Emit(st, node) == [st EXCEPT !.out = Append(@, node)]

\* the loop body with the two "close the other list" statements left out
StepLineNoSwitch(st, line) ==
    IF startswith(line, <<"#", " ">>) THEN Emit(close(st), Node("h1", From(line, 3)))
    ELSE IF startswith(line, <<"#", "#", " ">>) THEN Emit(close(st), Node("h2", From(line, 4)))
    ELSE IF startswith(line, <<"#", "#", "#", " ">>) THEN Emit(close(st), Node("h3", From(line, 5)))
    ELSE IF startswith(line, <<"-", " ">>) \/ startswith(line, <<"*", " ">>)
    THEN LET b == IF ~st.in_ul
                  THEN [st EXCEPT !.out = Append(@, Node("ul", <<>>)), !.in_ul = TRUE] ELSE st
         IN  Emit(b, Node("li", md_inline(From(line, 3))))
    ELSE IF IsOrderedLine(line)
    THEN LET b == IF ~st.in_ol
                  THEN [st EXCEPT !.out = Append(@, Node("ol", <<>>)), !.in_ol = TRUE] ELSE st
         IN  Emit(b, Node("li", md_inline(OrderedText(line))))
    ELSE IF startswith(line, <<"-", "-", "-">>) THEN Emit(close(st), Node("hr", <<>>))
    ELSE IF strip(line) = <<>> THEN Emit(close(st), Node("div", <<>>))
    ELSE Emit(close(st), Node("p", md_inline(line)))

\* the loop body with startswith("#") for the first test
StepLineLooseH1(st, line) ==
    IF startswith(line, <<"#">>) THEN Emit(close(st), Node("h1", From(line, 3)))
    ELSE IF startswith(line, <<"-", " ">>) \/ startswith(line, <<"*", " ">>)
    THEN LET a == IF st.in_ol
                  THEN [st EXCEPT !.out = Append(@, Node("/ol", <<>>)), !.in_ol = FALSE] ELSE st
             b == IF ~a.in_ul
                  THEN [a EXCEPT !.out = Append(@, Node("ul", <<>>)), !.in_ul = TRUE] ELSE a
         IN  Emit(b, Node("li", md_inline(From(line, 3))))
    ELSE IF IsOrderedLine(line)
    THEN LET a == IF st.in_ul
                  THEN [st EXCEPT !.out = Append(@, Node("/ul", <<>>)), !.in_ul = FALSE] ELSE st
             b == IF ~a.in_ol
                  THEN [a EXCEPT !.out = Append(@, Node("ol", <<>>)), !.in_ol = TRUE] ELSE a
         IN  Emit(b, Node("li", md_inline(OrderedText(line))))
    ELSE IF startswith(line, <<"-", "-", "-">>) THEN Emit(close(st), Node("hr", <<>>))
    ELSE IF strip(line) = <<>> THEN Emit(close(st), Node("div", <<>>))
    ELSE Emit(close(st), Node("p", md_inline(line)))

\* the body of "for line in lines": the if/elif chain in its order
StepLine(st, line) ==
    IF startswith(line, <<"#", " ">>) THEN Emit(close(st), Node("h1", From(line, 3)))
    ELSE IF startswith(line, <<"#", "#", " ">>) THEN Emit(close(st), Node("h2", From(line, 4)))
    ELSE IF startswith(line, <<"#", "#", "#", " ">>) THEN Emit(close(st), Node("h3", From(line, 5)))
    ELSE IF startswith(line, <<"-", " ">>) \/ startswith(line, <<"*", " ">>)
    THEN LET a == IF st.in_ol
                  THEN [st EXCEPT !.out = Append(@, Node("/ol", <<>>)), !.in_ol = FALSE] ELSE st
             b == IF ~a.in_ul
                  THEN [a EXCEPT !.out = Append(@, Node("ul", <<>>)), !.in_ul = TRUE] ELSE a
         IN  Emit(b, Node("li", md_inline(From(line, 3))))
    ELSE IF IsOrderedLine(line)
    THEN LET a == IF st.in_ul
                  THEN [st EXCEPT !.out = Append(@, Node("/ul", <<>>)), !.in_ul = FALSE] ELSE st
             b == IF ~a.in_ol
                  THEN [a EXCEPT !.out = Append(@, Node("ol", <<>>)), !.in_ol = TRUE] ELSE a
         IN  Emit(b, Node("li", md_inline(OrderedText(line))))
    ELSE IF startswith(line, <<"-", "-", "-">>) THEN Emit(close(st), Node("hr", <<>>))
    ELSE IF strip(line) = <<>> THEN Emit(close(st), Node("div", <<>>))
    ELSE Emit(close(st), Node("p", md_inline(line)))

HtmlState == [out |-> out, in_ul |-> in_ul, in_ol |-> in_ol]

\* out, lines = [], content.split("\n"); in_ul = in_ol = False
HtmlSplit ==
    /\ h_pc = "call"
    /\ lines' = split(content)
    /\ out' = <<>>
    /\ in_ul' = FALSE
    /\ in_ol' = FALSE
    /\ h_i' = 0
    /\ h_pc' = "loop"
    /\ UNCHANGED <<content, extractVars, titleVars, today, sessionVars, pdfVars, nameVars>>

\* one iteration of the loop
HtmlLine ==
    /\ h_pc = "loop"
    /\ h_i < Len(lines)
    /\ LET st == StepLine(HtmlState, lines[h_i + 1])
       IN  /\ out' = st.out
           /\ in_ul' = st.in_ul
           /\ in_ol' = st.in_ol
    /\ h_i' = h_i + 1
    /\ UNCHANGED <<content, lines, h_pc, extractVars, titleVars, today, sessionVars, pdfVars, nameVars>>

\* the return without the close() after the loop
HtmlReturnNoClose ==
    /\ h_pc = "loop"
    /\ h_i = Len(lines)
    /\ h_pc' = "done"
    /\ UNCHANGED <<out, in_ul, in_ol>>
    /\ UNCHANGED <<content, lines, h_i, extractVars, titleVars, today, sessionVars, pdfVars, nameVars>>

\* after the loop: close() and return "\n".join(out); the returned string
\* has one line per element of out, so out stands for it
HtmlReturn ==
    /\ h_pc = "loop"
    /\ h_i = Len(lines)
    /\ LET st == close(HtmlState)
       IN  /\ out' = st.out
           /\ in_ul' = st.in_ul
           /\ in_ol' = st.in_ol
    /\ h_pc' = "done"
    /\ UNCHANGED <<content, lines, h_i, extractVars, titleVars, today, sessionVars, pdfVars, nameVars>>

\* ----------------------------------------------------------- generate_pdf
\* datetime.now().strftime('%d %B %Y') on the days of Days
LongDays == <<"04 November 2026", "05 November 2026">>

\* il(t): bold, then italic, then code, in ReportLab's paragraph markup
il(t) ==
    InlineSub(InlineSub(InlineSub(t, <<"*", "*">>, "<b>", "</b>"),
                        <<"*">>, "<i>", "</i>"),
              <<BQ>>, "<font face=Courier>", "</font>")

\* str.upper() on the letters the payloads use; every other character of
\* the payloads is its own upper case
UpperCase == [c \in {"a", "b", "c", "d", "e", "p", "u", "v"} |->
                 CASE c = "a" -> "A" [] c = "b" -> "B" [] c = "c" -> "C"
                   [] c = "d" -> "D" [] c = "e" -> "E" [] c = "p" -> "P"
                   [] c = "u" -> "U" [] c = "v" -> "V"]

upper(s) == [i \in 1..Len(s) |-> IF s[i] \in DOMAIN UpperCase THEN UpperCase[s[i]] ELSE s[i]]

\* a flowable: its class, the paragraph style and the paragraph's markup
Paragraph(txt, style) == [class |-> "Paragraph", style |-> style, text |-> txt]
Spacer == [class |-> "Spacer", style |-> "", text |-> <<>>]
HRFlowable == [class |-> "HRFlowable", style |-> "", text |-> <<>>]

\* n = re.match(r"^(\d+)\.", line).group(1): the digits before the first
\* dot that follows a leading run of digits
OrderedLabel(line) ==
    LET ds == {d \in 1..Len(line) :
                  /\ \A q \in 1..d : line[q] \in UnicodeDigits
                  /\ d + 1 <= Len(line)
                  /\ line[d + 1] = "."}
    IN  SubSeq(line, 1, Max(ds))

\* txt = re.sub(r"^\d+\. ", "", line)
OrderedTxt(line) ==
    LET ds == {d \in 1..Len(line) :
                  /\ \A q \in 1..d : line[q] \in UnicodeDigits
                  /\ d + 2 <= Len(line)
                  /\ line[d + 1] = "."
                  /\ line[d + 2] = " "}
    IN  IF ds = {} THEN line ELSE From(line, Max(ds) + 3)

\* the bullet character of an unordered item
BULLET == "BULLET"

\* the loop body with a heading-1 line falling through to the paragraph
PdfStepKeepsH1(line) ==
    IF startswith(line, <<"#", "#", " ">>)
    THEN <<HRFlowable, Paragraph(upper(From(line, 4)), "sH2")>>
    ELSE IF startswith(line, <<"#", "#", "#", " ">>)
    THEN <<Paragraph(il(From(line, 5)), "sH3")>>
    ELSE IF startswith(line, <<"-", " ">>) \/ startswith(line, <<"*", " ">>)
    THEN <<Paragraph(<<BULLET, " ", "&nbsp;">> \o il(From(line, 3)), "sBull")>>
    ELSE IF IsOrderedLine(line)
    THEN <<Paragraph(<<"<b>">> \o OrderedLabel(line) \o <<".", "</b>", " ", "&nbsp;">>
                     \o il(OrderedTxt(line)), "sBull")>>
    ELSE IF startswith(line, <<"-", "-", "-">>) THEN <<HRFlowable>>
    ELSE IF strip(line) = <<>> THEN <<Spacer>>
    ELSE <<Paragraph(il(line), "sBody")>>

\* the body of "for line in prd_content.split("\n")": what it adds to story
PdfStep(line) ==
    IF startswith(line, <<"#", " ">>) THEN <<>>
    ELSE IF startswith(line, <<"#", "#", " ">>)
    THEN <<HRFlowable, Paragraph(upper(From(line, 4)), "sH2")>>
    ELSE IF startswith(line, <<"#", "#", "#", " ">>)
    THEN <<Paragraph(il(From(line, 5)), "sH3")>>
    ELSE IF startswith(line, <<"-", " ">>) \/ startswith(line, <<"*", " ">>)
    THEN <<Paragraph(<<BULLET, " ", "&nbsp;">> \o il(From(line, 3)), "sBull")>>
    ELSE IF IsOrderedLine(line)
    THEN <<Paragraph(<<"<b>">> \o OrderedLabel(line) \o <<".", "</b>", " ", "&nbsp;">>
                     \o il(OrderedTxt(line)), "sBull")>>
    ELSE IF startswith(line, <<"-", "-", "-">>) THEN <<HRFlowable>>
    ELSE IF strip(line) = <<>> THEN <<Spacer>>
    ELSE <<Paragraph(il(line), "sBody")>>

\* the header of the document: story = [...]
PdfHeader(ttl, day) ==
    <<Paragraph(<<"PRODUCT REQUIREMENTS DOCUMENT">>, "sMeta"),
      Spacer,
      Paragraph(ttl, "sH1"),
      Spacer,
      Paragraph(<<"PRD Generator . AI Co-Pilot ", "&nbsp;", "|", "&nbsp;", " ",
                  LongDays[day]>>, "sMeta"),
      HRFlowable>>

\* the footer of the document: story += [...]
PdfFooter ==
    <<Spacer, HRFlowable, Spacer,
      Paragraph(<<"(c) 2026 Vaishnavi R.B. . PRD Generator -- AI Product Co-Pilot . All rights reserved.">>,
                "sMeta")>>

\* generate_pdf(item["content"], item["title"]) up to the loop
PdfStart ==
    /\ p_pc = "call"
    /\ story' = PdfHeader(item_title, today)
    /\ p_i' = 0
    /\ p_pc' = "loop"
    /\ UNCHANGED <<item_title, safe_name, n_pc, extractVars, titleVars, today,
                   sessionVars, htmlVars>>

\* one iteration of the loop
PdfLine ==
    /\ p_pc = "loop"
    /\ p_i < Len(split(content))
    /\ story' = story \o PdfStep(split(content)[p_i + 1])
    /\ p_i' = p_i + 1
    /\ UNCHANGED <<p_pc, item_title, safe_name, n_pc, extractVars, titleVars, today,
                   sessionVars, htmlVars>>

\* after the loop: the footer, doc.build(story) and the return
PdfBuild ==
    /\ p_pc = "loop"
    /\ p_i = Len(split(content))
    /\ story' = story \o PdfFooter
    /\ p_pc' = "done"
    /\ UNCHANGED <<p_i, item_title, safe_name, n_pc, extractVars, titleVars, today,
                   sessionVars, htmlVars>>

\* ------------------------------------------------------------ the viewer
\* the characters of the class [a-zA-Z0-9_\- ]
SafeChars ==
    {"a", "b", "c", "d", "e", "f", "g", "h", "i", "j", "k", "l", "m",
     "n", "o", "p", "q", "r", "s", "t", "u", "v", "w", "x", "y", "z",
     "A", "B", "C", "D", "E", "F", "G", "H", "I", "J", "K", "L", "M",
     "N", "O", "P", "Q", "R", "S", "T", "U", "V", "W", "X", "Y", "Z",
     "0", "1", "2", "3", "4", "5", "6", "7", "8", "9", "_", "-", " "}

\* the slice bound of [:40]
NameLimit == 40

\* re.sub(r"[^a-zA-Z0-9_\- ]", "", s)
StripUnsafe(s) == SelectSeq(s, LAMBDA c : c \in SafeChars)

\* s[:n]
Take(s, n) == SubSeq(s, 1, Min({Len(s), n}))

\* s.replace(" ", "_")
ReplaceSpaces(s) == [i \in 1..Len(s) |-> IF s[i] = " " THEN "_" ELSE s[i]]

\* the slice taken before the characters are removed
SafeNameCutFirst(ttl) == ReplaceSpaces(StripUnsafe(Take(ttl, NameLimit)))

\* re.sub(r"[^a-zA-Z0-9_\- ]", "", item["title"])[:40].replace(" ", "_")
SafeName(ttl) == ReplaceSpaces(Take(StripUnsafe(ttl), NameLimit))

\* file_name=f"PRD_{safe_name}.pdf"
file_name == <<"P", "R", "D", "_">> \o safe_name \o <<".", "p", "d", "f">>

\* the viewer's statement that sets safe_name, after generate_pdf returned
ViewerSafeName ==
    /\ n_pc = "call"
    /\ p_pc \in {"off", "done"}
    /\ safe_name' = SafeName(item_title)
    /\ n_pc' = "done"
    /\ UNCHANGED <<item_title, extractVars, titleVars, today, sessionVars, htmlVars, pdfVars>>

\* ------------------------------------------------------ the idle parts
NoResult == [prd |-> None, commentary |-> <<>>]

ExtractIdle == text = <<>> /\ ex_res = NoResult /\ ex_pc = "off"

TitleIdle == prd_content = <<>> /\ t_res = <<>> /\ t_pc = "off"

HtmlIdle ==
    /\ content = <<>> /\ lines = <<>> /\ h_i = 0 /\ out = <<>>
    /\ in_ul = FALSE /\ in_ol = FALSE /\ h_pc = "off"

PdfIdle == story = <<>> /\ p_i = 0 /\ p_pc = "off"

NameIdle == item_title = <<>> /\ safe_name = <<>> /\ n_pc = "off"

SessionIdle ==
    /\ messages = <<>> /\ prds = <<>> /\ view_prd_idx = NoneIdx
    /\ reply = <<>> /\ buf = <<>> /\ shown = <<>>
    /\ pc = "off" /\ nturns = 0 /\ event = "off"

\* ------------------------------------------------ specification: session
\* the session state as the script's first run creates it
Init ==
    /\ messages = <<>> /\ prds = <<>> /\ view_prd_idx = NoneIdx
    /\ reply = <<>> /\ buf = <<>> /\ shown = <<>>
    /\ pc = "idle" /\ nturns = 0 /\ event = "init"
    /\ today = 1
    /\ ExtractIdle
    /\ TitleIdle
    /\ HtmlIdle
    /\ PdfIdle
    /\ NameIdle

Next ==
    \/ \E u \in UserInputs : \E r \in Replies : UserInput(u, r)
    \/ Chunk
    \/ GenDone
    \/ \E e \in Exceptions : GenRaise(e)
    \/ \E i \in 0..(Len(prds) - 1) : Open(i)
    \/ NewConversation
    \/ BackToChat
    \/ \E i \in 0..(Len(messages) - 1) : ViewAndDownload(i)
    \/ NextDay

Spec == Init /\ [][Next]_vars

\* ------------------------------------------ specification: extract_title
\* blocks as the callers pass them: stripped and not empty
TitlePieces ==
    { <<"#">>, <<" ">>, <<"\n">>, <<"T">>, <<"#", "#", " ", "U">> }

TitleContents ==
    {c \in {Concat(ps) : ps \in SeqsUpTo(TitlePieces, MaxTitlePieces)} :
        c # <<>> /\ strip(c) = c}

TitleInit ==
    /\ prd_content \in TitleContents
    /\ t_res = <<>>
    /\ t_pc = "call"
    /\ today \in 1..Len(Days)
    /\ ExtractIdle
    /\ SessionIdle
    /\ HtmlIdle
    /\ PdfIdle
    /\ NameIdle

TitleCall ==
    /\ t_pc = "call"
    /\ t_res' = extract_title(prd_content, today)
    /\ t_pc' = "done"
    /\ UNCHANGED <<prd_content, today, extractVars, sessionVars, htmlVars, pdfVars, nameVars>>

TitleNext == TitleCall

SpecTitle == TitleInit /\ [][TitleNext]_vars

\* ------------------------------------------- specification: prd_to_html
RECURSIVE Join(_)
Join(ls) ==
    IF ls = <<>> THEN <<>>
    ELSE IF Len(ls) = 1 THEN ls[1]
    ELSE ls[1] \o <<"\n">> \o Join(Tail(ls))

\* lines of a block that mixes the two list types with what closes a list
ListLines ==
    { <<"-", " ", "a">>, <<"-", " ", "b">>, <<"1", ".", " ", "c">>,
      <<"1", ".", " ", "d">>, <<>>, <<"#", "#", " ", "U">> }

\* one line of every kind, bare prefixes and near misses of the prefixes
KindLines ==
    { <<"#", " ", "T">>, <<"#", "#", " ", "U">>, <<"#", "#", "#", " ", "V">>,
      <<"#", " ">>, <<"#", "#", "#", " ">>, <<"#", "#", "#", "#", " ", "W">>, <<"#", "T">>,
      <<"-", " ", "a">>, <<"*", " ", "*", "*", "b", "*", "*">>, <<"-", " ">>, <<"-", "a">>,
      <<"1", ".", " ", "c">>, <<"1", "2", ".", " ", BQ, "d", BQ>>, <<"1", ".", "c">>,
      <<"-", "-", "-">>, <<"-", "-">>, <<>>, <<" ">>, <<"p", " ", "*", "q", "*">> }

HtmlInitWith(contents) ==
    /\ content \in contents
    /\ lines = <<>> /\ h_i = 0 /\ out = <<>>
    /\ in_ul = FALSE /\ in_ol = FALSE /\ h_pc = "call"
    /\ today = 1
    /\ ExtractIdle
    /\ TitleIdle
    /\ SessionIdle
    /\ PdfIdle
    /\ NameIdle

HtmlInit == HtmlInitWith({Join(ls) : ls \in SeqsUpTo(ListLines, MaxLines)})

HtmlKindsInit == HtmlInitWith({Join(ls) : ls \in SeqsUpTo(KindLines, MaxKindLines)})

HtmlNext == HtmlSplit \/ HtmlLine \/ HtmlReturn

SpecHtml == HtmlInit /\ [][HtmlNext]_vars

SpecHtmlKinds == HtmlKindsInit /\ [][HtmlNext]_vars

\* ------------------------------------------- specification: extract_prd
\* fragments the argument is assembled from: the markers, text, whitespace
\* and two halves of an end marker
ExtractPieces ==
    { PRD_START, PRD_END, <<"a">>, <<" ">>,
      <<"<", "P", "R", "D", "_">>, <<"E", "N", "D", ">">> }

ExtractTexts == {Concat(ps) : ps \in SeqsUpTo(ExtractPieces, MaxPieces)}

ExtractInit ==
    /\ text \in ExtractTexts
    /\ ex_res = NoResult
    /\ ex_pc = "call"
    /\ today = 1
    /\ TitleIdle
    /\ SessionIdle
    /\ HtmlIdle
    /\ PdfIdle
    /\ NameIdle

ExtractCall ==
    /\ ex_pc = "call"
    /\ ex_res' = extract_prd(text)
    /\ ex_pc' = "done"
    /\ UNCHANGED <<text, titleVars, today, sessionVars, htmlVars, pdfVars, nameVars>>

ExtractNext == ExtractCall

SpecExtract == ExtractInit /\ [][ExtractNext]_vars

\* ----------------------------------------------- specification: file name
MaxNamePieces == 3

\* the example title of the documentation, the fallback title, separators,
\* safe and unsafe characters; "U+2013" is the en dash of the fallback title
NamePieces ==
    { <<"S", "m", "a", "r", "t", " ", "S", "e", "a", "r", "c", "h", ":", " ",
        "v", "2", "!", "!">>,
      <<"P", "R", "D", " ", "U+2013", " ", "0", "4", " ", "N", "o", "v", " ",
        "2", "0", "2", "6">>,
      <<" ">>, <<"!">>, <<"a", "_", "-", "9", "Z">>, <<"/", ".">> }

\* titles as the records hold them: stripped and not empty
NameTitles ==
    {t \in {Concat(ps) : ps \in SeqsUpTo(NamePieces, MaxNamePieces)} :
        t # <<>> /\ strip(t) = t}

NameInit ==
    /\ item_title \in NameTitles
    /\ safe_name = <<>>
    /\ n_pc = "call"
    /\ today = 1
    /\ ExtractIdle
    /\ TitleIdle
    /\ SessionIdle
    /\ HtmlIdle
    /\ PdfIdle

NameNext == ViewerSafeName

SpecName == NameInit /\ [][NameNext]_vars

\* -------------------------------------------------- specification: viewer
MaxViewLines == 3

\* one line of every kind, two ordered items of which one is not numbered 1
ViewLines ==
    { <<"-", " ", "a">>, <<"1", ".", " ", "c">>, <<"3", ".", " ", "*", "*", "d", "*", "*">>,
      <<"#", " ", "T">>, <<"#", "#", " ", "u">>, <<"#", "#", "#", " ", "v">>,
      <<>>, <<"p">>, <<"-", "-", "-">> }

\* the viewer of one record: generate_pdf, the file name, then prd_to_html
ViewerInit ==
    /\ content \in {Join(ls) : ls \in SeqsUpTo(ViewLines, MaxViewLines)}
    /\ item_title = <<"T">>
    /\ story = <<>> /\ p_i = 0 /\ p_pc = "call"
    /\ safe_name = <<>> /\ n_pc = "call"
    /\ lines = <<>> /\ h_i = 0 /\ out = <<>>
    /\ in_ul = FALSE /\ in_ol = FALSE /\ h_pc = "call"
    /\ today = 1
    /\ ExtractIdle
    /\ TitleIdle
    /\ SessionIdle

ViewerHtmlSplit == n_pc = "done" /\ HtmlSplit

ViewerHtmlLine == n_pc = "done" /\ HtmlLine

ViewerHtmlReturn == n_pc = "done" /\ HtmlReturn

ViewerNext ==
    \/ PdfStart
    \/ PdfLine
    \/ PdfBuild
    \/ ViewerSafeName
    \/ ViewerHtmlSplit
    \/ ViewerHtmlLine
    \/ ViewerHtmlReturn

SpecViewer == ViewerInit /\ [][ViewerNext]_vars

\* ------------------------------------------------------- claims C1 - C3
ContainsMarker(s) == Find(s, PRD_START, 1) # 0 \/ Find(s, PRD_END, 1) # 0

\* a start marker with an end marker somewhere after it
HasPair(s) ==
    \E i \in 1..Len(s) :
        /\ StartsWithAt(s, i, PRD_START)
        /\ \E j \in (i + Len(PRD_START))..Len(s) : StartsWithAt(s, j, PRD_END)

\* C1: a text with no start marker followed later by an end marker comes
\* back as (None, text): the commentary is the argument itself, untrimmed.
C1_NoPairReturnsTextUnchanged ==
    (ex_pc = "done" /\ ~HasPair(text)) =>
        (ex_res.prd = None /\ ex_res.commentary = text)

\* a miss on a text that trimming would change
C1_Witness ==
    /\ ex_pc = "done"
    /\ ~HasPair(text)
    /\ Find(text, PRD_START, 1) # 0
    /\ strip(text) # text
    /\ ex_res.commentary = text

\* C2: for marker-free pre, A, post the call on pre+START+A+END+post returns
\* (strip(A), strip(pre+post)); with pre and post empty the commentary is "".
C2_SinglePairSplit ==
    ex_pc = "done" =>
        \A i \in {p \in 1..Len(text) : StartsWithAt(text, p, PRD_START)} :
        \A j \in {p \in (i + Len(PRD_START))..Len(text) : StartsWithAt(text, p, PRD_END)} :
            LET pre  == SubSeq(text, 1, i - 1)
                A    == SubSeq(text, i + Len(PRD_START), j - 1)
                post == From(text, j + Len(PRD_END))
            IN  ( /\ ~ContainsMarker(pre)
                  /\ ~ContainsMarker(A)
                  /\ ~ContainsMarker(post) )
                =>  /\ ex_res.prd = Some(strip(A))
                    /\ ex_res.commentary = strip(pre \o post)
                    /\ (pre = <<>> /\ post = <<>> => ex_res.commentary = <<>>)

\* one pair, its block and the text before it both changed by the trimming
C2_Witness ==
    /\ ex_pc = "done"
    /\ text = <<" ">> \o PRD_START \o <<" ", "a">> \o PRD_END
    /\ ex_res.prd = Some(<<"a">>)
    /\ ex_res.commentary = <<>>

\* the marker spans of s by position: the first span is the first start
\* marker that has an end marker after it, up to that first end marker; the
\* next span is sought from the character after the previous span
RECURSIVE SpanPositions(_, _)
SpanPositions(s, from) ==
    LET cands == {i \in from..Len(s) :
                     /\ StartsWithAt(s, i, PRD_START)
                     /\ \E j \in (i + Len(PRD_START))..Len(s) : StartsWithAt(s, j, PRD_END)}
    IN  IF cands = {} THEN {}
        ELSE LET i == Min(cands)
                 j == Min({k \in (i + Len(PRD_START))..Len(s) : StartsWithAt(s, k, PRD_END)})
                 last == j + Len(PRD_END) - 1
             IN  (i..last) \cup SpanPositions(s, last + 1)

\* s without the characters at the positions in drop
RECURSIVE Without(_, _, _)
Without(s, drop, p) ==
    IF p > Len(s) THEN <<>>
    ELSE (IF p \in drop THEN <<>> ELSE <<s[p]>>) \o Without(s, drop, p + 1)

FirstSpan(s) ==
    LET i == Find(s, PRD_START, 1)
        j == Find(s, PRD_END, i + Len(PRD_START))
    IN  i..(j + Len(PRD_END) - 1)

FirstBlock(s) ==
    LET i == Find(s, PRD_START, 1)
        j == Find(s, PRD_END, i + Len(PRD_START))
    IN  SubSeq(s, i + Len(PRD_START), j - 1)

\* more than one complete pair: a pair is left after the first span
HasTwoPairs(s) ==
    /\ HasPair(s)
    /\ HasPair(From(s, Max(FirstSpan(s)) + 1))

\* C3 as claimed: with several pairs the block is the first pair's content
\* and the commentary is the text less that one span, later pairs kept.
C3_OnlyFirstSpanRemoved ==
    (ex_pc = "done" /\ HasTwoPairs(text)) =>
        /\ ex_res.prd = Some(strip(FirstBlock(text)))
        /\ ex_res.commentary = strip(Without(text, FirstSpan(text), 1))

\* C3 as the code has it: the block is the first pair's content, and the
\* commentary is the text less every marker span, so no later pair is kept.
C3_EverySpanRemoved ==
    (ex_pc = "done" /\ HasTwoPairs(text)) =>
        /\ ex_res.prd = Some(strip(FirstBlock(text)))
        /\ ex_res.commentary = strip(Without(text, SpanPositions(text, 1), 1))
        /\ ~HasPair(Without(text, SpanPositions(text, 1), 1))

\* two empty pairs with text between them: both spans go, the text stays
C3_Witness ==
    /\ ex_pc = "done"
    /\ text = PRD_START \o PRD_END \o <<"a">> \o PRD_START \o PRD_END
    /\ ex_res.prd = Some(<<>>)
    /\ ex_res.commentary = <<"a">>

\* ------------------------------------------------------- claims C4 - C7
Last(q) == q[Len(q)]

IsPrefix(p, q) == Len(p) <= Len(q) /\ SubSeq(q, 1, Len(p)) = p

\* q is p with exactly one element more at the end
AppendsOne(p, q) == Len(q) = Len(p) + 1 /\ SubSeq(q, 1, Len(p)) = p

\* C4 as claimed: a completed turn whose message holds a marker pair appends
\* exactly one record holding the extracted block, whatever is between the
\* markers; a turn with no pair appends none.
C4_EveryPairAppendsRecord ==
    [][ event' = "gen_done" =>
          LET full == Last(messages').content
          IN  IF HasPair(full)
              THEN AppendsOne(prds, prds') /\ Last(prds').content = strip(FirstBlock(full))
              ELSE prds' = prds ]_vars

\* C4 as the code has it: the record is appended exactly when the stripped
\* block of the first pair is not empty; no pair, an empty block or a
\* whitespace-only block appends none.
C4_NonEmptyBlockAppendsRecord ==
    [][ event' = "gen_done" =>
          LET full == Last(messages').content
          IN  IF HasPair(full) /\ strip(FirstBlock(full)) # <<>>
              THEN AppendsOne(prds, prds') /\ Last(prds').content = strip(FirstBlock(full))
              ELSE prds' = prds ]_vars

\* a completed turn with two pairs in its message has left one record
C4_Witness ==
    /\ event = "gen_done"
    /\ HasTwoPairs(Last(messages).content)
    /\ Len(prds) = 1
    /\ prds[1].content = <<"#", " ", "T">>

C6_NewConversationClearsAll ==
    [][ event' = "new_conversation" => (messages' = <<>> /\ prds' = <<>>) ]_vars

\* C6 as the code has it: New Conversation empties the history and unsets
\* the viewed index; the document collection is left as it was.
C6_NewConversationKeepsPrds ==
    [][ event' = "new_conversation" =>
          (messages' = <<>> /\ view_prd_idx' = NoneIdx /\ prds' = prds) ]_vars

\* New Conversation pressed with a record in the collection
C6_Witness ==
    /\ event = "new_conversation"
    /\ messages = <<>>
    /\ view_prd_idx = NoneIdx
    /\ Len(prds) = 1

\* C7: every step leaves the old document collection as a prefix of the new
\* one, so across any run no record is changed, reordered or removed.
C7_PrdsOnlyGrowAtEnd ==
    [][ IsPrefix(prds, prds') ]_vars

\* two records, the second appended after a New Conversation
C7_Witness ==
    /\ Len(prds) = 2
    /\ Len(messages) = 2
    /\ prds[1].title # prds[2].title

\* ------------------------------------------------------- claims C8 - C9
\* the groupings of a markup list: each opening tag starts a grouping, a
\* closing tag ends the last open grouping of its type, and an item belongs
\* to every grouping open at its place. items are the positions of the
\* items among the content nodes, which is the number of their line.
RECURSIVE Groupings(_, _, _, _)
Groupings(o, p, n, gs) ==
    IF p > Len(o) THEN gs
    ELSE LET t == o[p].tag
         IN  IF t \in {"ul", "ol"}
             THEN Groupings(o, p + 1, n, Append(gs, [tag |-> t, open |-> TRUE, items |-> <<>>]))
             ELSE IF t \in {"/ul", "/ol"}
             THEN LET opent == IF t = "/ul" THEN "ul" ELSE "ol"
                      cand  == {g \in 1..Len(gs) : gs[g].open /\ gs[g].tag = opent}
                  IN  Groupings(o, p + 1, n,
                                IF cand = {} THEN gs
                                ELSE [gs EXCEPT ![Max(cand)].open = FALSE])
             ELSE IF t = "li"
             THEN Groupings(o, p + 1, n + 1,
                            [g \in 1..Len(gs) |->
                                IF gs[g].open
                                THEN [gs[g] EXCEPT !.items = Append(@, n + 1)]
                                ELSE gs[g]])
             ELSE Groupings(o, p + 1, n + 1, gs)

GroupingsOf(o) == Groupings(o, 1, 0, <<>>)

IsUnorderedItem(l) == startswith(l, <<"-", " ">>) \/ startswith(l, <<"*", " ">>)

IsOrderedItem(l) ==
    \E d \in 1..Len(l) :
        /\ \A q \in 1..d : l[q] \in UnicodeDigits
        /\ StartsWithAt(l, d + 1, <<".", " ">>)

ExampleLines == << <<"-", " ", "a">>, <<"-", " ", "b">>, <<"1", ".", " ", "c">>, <<"1", ".", " ", "d">> >>

\* C8: a list item right after an item of the other type ends one grouping
\* and starts the next; "- a", "- b", "1. c", "1. d" gives an unordered
\* grouping of 2 and then an ordered grouping of 2; no grouping of any
\* payload holds items of both types.
C8_ListSwitchSeparatesGroupings ==
    h_pc = "done" =>
        LET gs == GroupingsOf(out)
            ls == split(content)
        IN  /\ \A g \in 1..Len(gs) :
                  /\ ~gs[g].open
                  /\ \A k \in 1..Len(gs[g].items) :
                        IF gs[g].tag = "ul"
                        THEN IsUnorderedItem(ls[gs[g].items[k]])
                        ELSE IsOrderedItem(ls[gs[g].items[k]])
            /\ \A n \in 1..(Len(ls) - 1) :
                  (\/ IsUnorderedItem(ls[n]) /\ IsOrderedItem(ls[n + 1])
                   \/ IsOrderedItem(ls[n]) /\ IsUnorderedItem(ls[n + 1]))
                  => \E g \in 1..(Len(gs) - 1) :
                        /\ Last(gs[g].items) = n
                        /\ Head(gs[g + 1].items) = n + 1
                        /\ gs[g].tag # gs[g + 1].tag
            /\ content = Join(ExampleLines) =>
                  gs = << [tag |-> "ul", open |-> FALSE, items |-> <<1, 2>>],
                          [tag |-> "ol", open |-> FALSE, items |-> <<3, 4>>] >>

\* the example payload rendered
C8_Witness ==
    /\ h_pc = "done"
    /\ content = Join(ExampleLines)
    /\ Len(GroupingsOf(out)) = 2
    /\ [i \in 1..Len(out) |-> out[i].tag]
          = <<"ul", "li", "li", "/ul", "ol", "li", "li", "/ol">>

\* the content nodes of a markup list, an item tagged by the list it is in
RECURSIVE ContentKinds(_, _, _)
ContentKinds(o, p, cur) ==
    IF p > Len(o) THEN <<>>
    ELSE LET t == o[p].tag
         IN  IF t \in {"ul", "ol"} THEN ContentKinds(o, p + 1, t)
             ELSE IF t \in {"/ul", "/ol"} THEN ContentKinds(o, p + 1, "none")
             ELSE IF t = "li"
             THEN <<[kind |-> "li-" \o cur, text |-> o[p].text]>> \o ContentKinds(o, p + 1, cur)
             ELSE <<[kind |-> t, text |-> o[p].text]>> \o ContentKinds(o, p + 1, cur)

\* the kind the rules give a line, first match first
RuleKind(l) ==
    IF startswith(l, <<"#", " ">>) THEN "h1"
    ELSE IF startswith(l, <<"#", "#", " ">>) THEN "h2"
    ELSE IF startswith(l, <<"#", "#", "#", " ">>) THEN "h3"
    ELSE IF IsUnorderedItem(l) THEN "li-ul"
    ELSE IF IsOrderedItem(l) THEN "li-ol"
    ELSE IF startswith(l, <<"-", "-", "-">>) THEN "hr"
    ELSE IF \A q \in 1..Len(l) : l[q] \in Whitespace THEN "div"
    ELSE "p"

BarePrefixes ==
    { <<"#", " ">>, <<"#", "#", " ">>, <<"#", "#", "#", " ">>, <<"-", " ">>, <<"*", " ">> }

\* C9: one content node per line, in order, of the kind the first matching
\* rule gives; a bare prefix gives an empty node of its kind.
C9_OneNodePerLineByFirstRule ==
    h_pc = "done" =>
        LET ns == ContentKinds(out, 1, "none")
            ls == split(content)
        IN  /\ Len(ns) = Len(ls)
            /\ \A k \in 1..Len(ls) :
                  /\ ns[k].kind = RuleKind(ls[k])
                  /\ ls[k] \in BarePrefixes => ns[k].text = <<>>

\* a bare "### " followed by a near miss of a heading
C9_Witness ==
    /\ h_pc = "done"
    /\ content = <<"#", "#", "#", " ", "\n", "#", "T">>
    /\ out = <<Node("h3", <<>>), Node("p", <<"#", "T">>)>>

\* -------------------------------------------------------------- claim C10
IsLevelOneLine(l) == Len(l) >= 3 /\ l[1] = "#" /\ l[2] = " "

\* C10: the title is the stripped text of the first line that is "# " and
\* text on the same line, never a "##" or "###" line; without such a line it
\* is the fallback title of the day.
C10_TitleIsFirstLevelOneLine ==
    t_pc = "done" =>
        LET ls   == split(prd_content)
            hits == {k \in 1..Len(ls) : IsLevelOneLine(ls[k])}
        IN  t_res = IF hits = {} THEN FallbackTitle(today)
                    ELSE strip(From(ls[Min(hits)], 3))

\* -------------------------------------------------------------- claim C11
\* the number of an ordered line "N. text" as written, and the text after it
NumberOf(l) == SubSeq(l, 1, Find(l, <<".", " ">>, 1) - 1)

TextAfterNumber(l) == From(l, Find(l, <<".", " ">>, 1) + 2)

\* markup t ends with body and shows the label n before it
CarriesLabel(t, n, body) ==
    \E k \in 0..Len(t) :
        /\ From(t, k + 1) = body
        /\ Find(SubSeq(t, 1, k), n, 1) # 0

\* C11: in both backends the item of an ordered line "N. text" carries N as
\* a literal label, followed by the inline-formatted text after "N. ".
C11_OrderedItemCarriesNumber ==
    [][ /\ (h_pc = "loop" /\ h_i' = h_i + 1 /\ IsOrderedLine(lines[h_i + 1]))
            => CarriesLabel(Last(out').text, NumberOf(lines[h_i + 1]),
                            md_inline(TextAfterNumber(lines[h_i + 1])))
        /\ (p_pc = "loop" /\ p_i' = p_i + 1 /\ IsOrderedLine(split(content)[p_i + 1]))
            => CarriesLabel(Last(story').text, NumberOf(split(content)[p_i + 1]),
                            il(TextAfterNumber(split(content)[p_i + 1]))) ]_vars

\* the same statement of the paginated backend alone
C11_PdfItemCarriesNumber ==
    [][ (p_pc = "loop" /\ p_i' = p_i + 1 /\ IsOrderedLine(split(content)[p_i + 1]))
            => CarriesLabel(Last(story').text, NumberOf(split(content)[p_i + 1]),
                            il(TextAfterNumber(split(content)[p_i + 1]))) ]_vars

\* -------------------------------------------------------------- claim C12
\* the positions of the title whose character is in the safe class
KeptPositions(t) == {i \in 1..Len(t) : t[i] \in SafeChars}

\* the k-th of these positions
KeptAt(t, k) ==
    CHOOSE i \in KeptPositions(t) : Cardinality({j \in KeptPositions(t) : j <= i}) = k

\* C12: the file name is "PRD_" + base + ".pdf"; base is the title with the
\* characters outside [A-Za-z0-9_- ] removed first, then cut to its first 40
\* characters, then every space replaced by an underscore: at most 40
\* characters, all in [A-Za-z0-9_-].
C12_FileNameFromTitle ==
    n_pc = "done" =>
        LET kept == Cardinality(KeptPositions(item_title))
            base == SubSeq(file_name, 5, Len(file_name) - 4)
        IN  /\ SubSeq(file_name, 1, 4) = <<"P", "R", "D", "_">>
            /\ From(file_name, Len(file_name) - 3) = <<".", "p", "d", "f">>
            /\ Len(base) = Min({kept, NameLimit})
            /\ \A k \in 1..Len(base) :
                  LET c == item_title[KeptAt(item_title, k)]
                  IN  base[k] = IF c = " " THEN "_" ELSE c
            /\ Len(base) <= 40
            /\ \A k \in 1..Len(base) : base[k] \in SafeChars \ {" "}

\* a title of 54 characters with unsafe characters and spaces among its
\* first 40: the base stops at the 40th safe character
C12_Witness ==
    /\ n_pc = "done"
    /\ Len(item_title) > NameLimit
    /\ Len(safe_name) = NameLimit
    /\ Cardinality(KeptPositions(item_title)) > NameLimit
    /\ \E i \in 1..NameLimit : item_title[i] \notin SafeChars
    /\ \E i \in 1..NameLimit : item_title[i] = " "
    /\ SubSeq(safe_name, 1, 15) =
         <<"S", "m", "a", "r", "t", "_", "S", "e", "a", "r", "c", "h", "_", "v", "2">>

\* -------------------------------------------------------------- claim C13
\* C13: at every step of prd_to_html the two list flags are never both
\* true, and they are both false when the loop starts.
C13_ListFlagsExclusive ==
    /\ ~(in_ul /\ in_ol)
    /\ (h_pc = "loop" /\ h_i = 0) => (~in_ul /\ ~in_ol)

\* inside the loop, an ordered list open right after an unordered one was
\* closed by the switch
C13_Witness ==
    /\ h_pc = "loop"
    /\ h_i = 2
    /\ in_ol /\ ~in_ul
    /\ out = <<Node("ul", <<>>), Node("li", <<"a">>), Node("/ul", <<>>),
               Node("ol", <<>>), Node("li", <<"c">>)>>

\* -------------------------------------------------------------- claim C14
\* reads o from position p with the list "open" ("none", "ul" or "ol") and
\* yields the list open at the end, or "bad" at the first marker or node out
\* of place: a list opened inside a list, a closing marker without its list,
\* an item outside a list, anything but an item inside a list
RECURSIVE ListWalk(_, _, _)
ListWalk(o, p, open) ==
    IF p > Len(o) THEN open
    ELSE LET t == o[p].tag
         IN  IF t \in {"ul", "ol"}
             THEN IF open = "none" THEN ListWalk(o, p + 1, t) ELSE "bad"
             ELSE IF t \in {"/ul", "/ol"}
             THEN IF (t = "/ul" /\ open = "ul") \/ (t = "/ol" /\ open = "ol")
                  THEN ListWalk(o, p + 1, "none") ELSE "bad"
             ELSE IF t = "li"
             THEN IF open # "none" THEN ListWalk(o, p + 1, open) ELSE "bad"
             ELSE IF open = "none" THEN ListWalk(o, p + 1, open) ELSE "bad"

\* C14: the output of prd_to_html has well-formed list groupings: every
\* opening marker is followed by its closing marker, no list opens inside
\* another, only items lie between the two markers, every item lies inside a
\* list, so a heading, rule or blank line closes the open list before its
\* own node, and no list is open when the output is finalized.
C14_ListGroupingsWellFormed ==
    /\ h_pc = "loop" =>
          ListWalk(out, 1, "none") =
              IF in_ul THEN "ul" ELSE IF in_ol THEN "ol" ELSE "none"
    /\ h_pc = "done" => ListWalk(out, 1, "none") = "none"

\* an unordered list closed by a rule, then an ordered list closed at the end
C14_Witness ==
    /\ h_pc = "done"
    /\ content = <<"-", " ", "a", "\n", "-", "-", "-", "\n", "1", ".", " ", "c">>
    /\ out = <<Node("ul", <<>>), Node("li", <<"a">>), Node("/ul", <<>>),
               Node("hr", <<>>),
               Node("ol", <<>>), Node("li", <<"c">>), Node("/ol", <<>>)>>

\* -------------------------------------------------------------- claim C15
CountTag(o, tag) == Cardinality({i \in 1..Len(o) : o[i].tag = tag})

\* what one step of prd_to_html appends to out
Appended == SubSeq(out', Len(out) + 1, Len(out'))

\* C15: closing is idempotent. A step emits the closing marker of a list
\* only when that list is open, and then once; a line that closes lists
\* emits no closing marker when no list is open; so a run of such lines
\* after a list leaves exactly one closing marker for it.
C15_CloseIsIdempotent ==
    /\ [][ h_pc = "loop" =>
             /\ IsPrefix(out, out')
             /\ CountTag(Appended, "/ul") = (IF in_ul /\ ~in_ul' THEN 1 ELSE 0)
             /\ CountTag(Appended, "/ol") = (IF in_ol /\ ~in_ol' THEN 1 ELSE 0)
             /\ (~in_ul /\ ~in_ol) =>
                   (CountTag(Appended, "/ul") = 0 /\ CountTag(Appended, "/ol") = 0) ]_vars
    /\ [](h_pc \in {"loop", "done"} =>
             /\ CountTag(out, "/ul") = CountTag(out, "ul") - (IF in_ul THEN 1 ELSE 0)
             /\ CountTag(out, "/ol") = CountTag(out, "ol") - (IF in_ol THEN 1 ELSE 0))

\* a list followed by a run of three lines that close lists: one marker
C15_Witness ==
    /\ h_pc = "done"
    /\ content = <<"-", " ", "a", "\n", "\n", "#", "#", " ", "U", "\n">>
    /\ out = <<Node("ul", <<>>), Node("li", <<"a">>), Node("/ul", <<>>),
               Node("div", <<>>), Node("h2", <<"U">>), Node("div", <<>>)>>

\* -------------------------------------------------------------- claim C16
\* the flowables of the payload: story without its header and footer
PdfBody == SubSeq(story, Len(PdfHeader(item_title, today)) + 1, Len(story) - Len(PdfFooter))

\* the node kinds of a list of flowables: a rule and a heading-2 paragraph
\* are the two flowables of one heading-2 line
RECURSIVE PdfKinds(_, _)
PdfKinds(s, p) ==
    IF p > Len(s) THEN <<>>
    ELSE LET f == s[p]
         IN  IF /\ f.class = "HRFlowable"
                /\ p < Len(s)
                /\ s[p + 1].class = "Paragraph"
                /\ s[p + 1].style = "sH2"
             THEN <<"h2">> \o PdfKinds(s, p + 2)
             ELSE <<(CASE f.class = "HRFlowable" -> "hr"
                       [] f.class = "Spacer" -> "div"
                       [] f.style = "sH3" -> "h3"
                       [] f.style = "sBody" -> "p"
                       [] f.style = "sBull" ->
                            IF f.text[1] = BULLET THEN "li-ul" ELSE "li-ol"
                       [] OTHER -> "other")>> \o PdfKinds(s, p + 1)

\* the node kinds of the markup output, one per content node
HtmlKinds(o) ==
    LET ns == ContentKinds(o, 1, "none") IN [k \in 1..Len(ns) |-> ns[k].kind]

WithoutH1(ks) == SelectSeq(ks, LAMBDA k : k # "h1")

\* the groupings a sequence of node kinds shows: the maximal runs of
\* adjacent items of one type, each with its type and its number of items
RECURSIVE Runs(_, _, _)
Runs(ks, p, acc) ==
    IF p > Len(ks) THEN acc
    ELSE IF ks[p] \notin {"li-ul", "li-ol"} THEN Runs(ks, p + 1, acc)
    ELSE IF p > 1 /\ ks[p - 1] = ks[p]
    THEN Runs(ks, p + 1, [acc EXCEPT ![Len(acc)].size = @ + 1])
    ELSE Runs(ks, p + 1,
              Append(acc, [tag |-> IF ks[p] = "li-ul" THEN "ul" ELSE "ol", size |-> 1]))

RunsOf(ks) == Runs(ks, 1, <<>>)

\* the groupings of the markup output, each with its type and size
GroupShape(o) ==
    LET gs == GroupingsOf(o)
    IN  [g \in 1..Len(gs) |-> [tag |-> gs[g].tag, size |-> Len(gs[g].items)]]

BothDone == p_pc = "done" /\ h_pc = "done"

\* C16 as claimed: both backends give every line the same node kind (the
\* paginated one suppressing heading-1 only) and put the list items into
\* the same groupings, opened and closed at the same lines.
C16_BackendsSameGroupings ==
    BothDone =>
        /\ PdfKinds(PdfBody, 1) = WithoutH1(HtmlKinds(out))
        /\ RunsOf(PdfKinds(PdfBody, 1)) = GroupShape(out)

\* C16 as the code has it: the node kinds agree, heading-1 aside; the
\* markup backend's groupings are the runs of adjacent items of one type
\* among its nodes; the paginated backend, which keeps no list state, shows
\* the same runs when the payload has no heading-1 line, and one run where a
\* heading-1 line alone separates two items of one type.
C16_BackendsSameKinds ==
    BothDone =>
        /\ PdfKinds(PdfBody, 1) = WithoutH1(HtmlKinds(out))
        /\ GroupShape(out) = RunsOf(HtmlKinds(out))
        /\ RunsOf(PdfKinds(PdfBody, 1)) = RunsOf(WithoutH1(HtmlKinds(out)))
        /\ (\A k \in 1..Len(split(content)) : RuleKind(split(content)[k]) # "h1")
              => RunsOf(PdfKinds(PdfBody, 1)) = GroupShape(out)

\* two items separated by a heading-1 line: two groupings in the markup,
\* one run of two in the story
C16_Witness ==
    /\ BothDone
    /\ content = <<"-", " ", "a", "\n", "#", " ", "T", "\n", "-", " ", "a">>
    /\ GroupShape(out) = <<[tag |-> "ul", size |-> 1], [tag |-> "ul", size |-> 1]>>
    /\ RunsOf(PdfKinds(PdfBody, 1)) = <<[tag |-> "ul", size |-> 2]>>
    /\ HtmlKinds(out) = <<"li-ul", "h1", "li-ul">>

\* -------------------------------------------------------------- claim C17
\* C17: during a turn the fragments are appended to the accumulator in
\* arrival order and forwarded to the display in the same order; the tag
\* extractor runs on the accumulated message only after the generator is
\* exhausted; the assistant message a successful turn stores is the
\* concatenation of all the fragments in arrival order.
C17_FragmentsAccumulateInOrder ==
    /\ [](pc = "streaming" => buf = Concat(shown))
    /\ [][ event' = "chunk" =>
             /\ reply # <<>>
             /\ shown' = Append(shown, Head(reply))
             /\ buf' = buf \o Head(reply)
             /\ shown' \o reply' = shown \o reply
             /\ prds' = prds /\ messages' = messages ]_vars
    /\ [][ event' = "gen_done" =>
             /\ reply = <<>>
             /\ messages' = Append(messages, Message("assistant", Concat(shown)))
             /\ prds' # prds =>
                   /\ Len(prds') = Len(prds) + 1
                   /\ Last(prds').content = extract_prd(Concat(shown)).prd.val ]_vars
    /\ [][ prds' # prds => event' \in {"gen_done", "gen_raise"} ]_vars

\* a document whose block arrives in two fragments, stored whole
C17_Witness ==
    /\ event = "gen_done"
    /\ shown = << PRD_START \o <<"#", " ", "V">>, <<"\n", "a">> \o PRD_END >>
    /\ Last(messages) = Message("assistant", shown[1] \o shown[2])
    /\ Len(prds) = 1
    /\ prds[1].content = <<"#", " ", "V", "\n", "a">>

\* -------------------------------------------------------------- claim C18
\* the titles of the blocks of the assistant messages on display
BlockTitles ==
    {extract_title(extract_prd(messages[i].content).prd.val, today) :
        i \in {k \in 1..Len(messages) :
                  /\ messages[k].role # "user"
                  /\ Truthy(extract_prd(messages[k].content).prd)}}

\* C18: View and Download on an assistant message whose block has title t
\* sets the viewed index to the smallest j whose record has title t, also
\* when records of that title are left from before a New Conversation; the
\* action is offered only when such a record exists.
C18_ViewOpensFirstRecordOfTitle ==
    [][ event' = "view_download" =>
          \E t \in BlockTitles :
              /\ view_prd_idx' \in 0..(Len(prds) - 1)
              /\ prds[view_prd_idx' + 1].title = t
              /\ \A j \in 0..(view_prd_idx' - 1) : prds[j + 1].title # t
              /\ \E j \in 1..Len(prds) : prds[j].title = t ]_vars

\* the record of the one message on display is the second of its title;
\* the first was made before New Conversation, and the button opens it
C18_Witness ==
    /\ event = "view_download"
    /\ Len(messages) = 2
    /\ Len(prds) = 2
    /\ prds[1].title = prds[2].title
    /\ extract_prd(messages[2].content).prd.val = prds[2].content
    /\ view_prd_idx = 0

\* -------------------------------------------------------------- claim C19
\* C19: in every reachable session state the view index is unset or a valid
\* position of the document collection, so the viewer never reads a record
\* that does not exist.
C19_ViewIndexValid ==
    view_prd_idx = NoneIdx \/ (0 <= view_prd_idx /\ view_prd_idx < Len(prds))

\* the viewer shows the last of two records
C19_Witness ==
    /\ event = "open"
    /\ Len(prds) = 2
    /\ view_prd_idx = 1

\* -------------------------------------------------------------- claim C20
\* C20: between two New Conversation resets the history only grows by
\* appending: a user input appends exactly one user turn and then exactly
\* one assistant turn, also when the generator fails; no earlier turn is
\* changed; the roles alternate starting with user, and the history has
\* even length whenever no turn is in progress.
C20_HistoryIsAppendOnly ==
    /\ [][ event' # "new_conversation" => IsPrefix(messages, messages') ]_vars
    /\ [][ event' = "user_input" =>
             /\ Len(messages') = Len(messages) + 1
             /\ Last(messages').role = "user"
             /\ pc' = "streaming" ]_vars
    /\ [][ event' \in {"gen_done", "gen_raise"} =>
             /\ pc = "streaming"
             /\ Len(messages') = Len(messages) + 1
             /\ Last(messages').role = "assistant"
             /\ pc' = "idle" ]_vars
    /\ [][ messages' # messages =>
             event' \in {"user_input", "gen_done", "gen_raise", "new_conversation"} ]_vars
    /\ [](\A i \in 1..Len(messages) :
             messages[i].role = IF i % 2 = 1 THEN "user" ELSE "assistant")
    /\ [](pc = "idle" => Len(messages) % 2 = 0)
    /\ [](pc = "streaming" => Len(messages) % 2 = 1)

\* a failed turn and a successful one: four turns, the second the error text
C20_Witness ==
    /\ event = "gen_done"
    /\ pc = "idle"
    /\ Len(messages) = 4
    /\ messages[2] = Message("assistant", ErrorText(<<"connection refused">>))
    /\ messages[4].content # messages[2].content

====
